---- MODULE Spec2Model ----
(***************************************************************************)
(* The insect learn/quiz controller of src/main.py: InsectController on    *)
(* top of AudioPlayer (one worker thread per clip) and the Tk event loop   *)
(* (root.after timers, user input events).                                 *)
(*                                                                         *)
(* Every handler of the controller is a pure operator from the program     *)
(* state (a record with one field per object field) to the state it        *)
(* leaves; an action is one run-to-completion handler on the event loop,   *)
(* or one step of an audio worker thread.  The player is the subprocess    *)
(* one (_play_subprocess with afplay, aplay or paplay).                    *)
(*                                                                         *)
(* The web front end of src/Bees project/app.py is modelled beside it: the *)
(* /interactive endpoint and the session cookie it reads and writes.       *)
(***************************************************************************)
EXTENDS Integers, Sequences, FiniteSets, TLC

(***************************************************************************)
(* Bounds of the model.                                                    *)
(***************************************************************************)
\* Number of slots; the program builds 8 (INSECT_KEYS, main.py:31).
NumSlots == 5
\* Rounds per quiz; the program plays 5 (QUIZ_ROUNDS, main.py:22).
QuizRounds == 2
\* QUIZ_ROUNDS of the program
QUIZ_ROUNDS == 5
\* How many outcomes of each random draw (sample, shuffle) are explored.
MaxDraws == 2
\* How many controls the user can physically hold down at once.
MaxHeld == 1
\* How many audio worker threads can be alive at once.
MaxThreads == 2
\* The user keeps only the slots 1 .. MaxNarrated pressed for the whole hold
\* threshold; a press of another slot is released before its timer fires.
MaxNarrated == 1

\* Two-hand runs in learn mode (SpecHeld): how many controls can be held
\* down at once, and the slots 1 .. HeldSlots the user presses in them.
TwoHands == 2
HeldSlots == 2

Keys == 1 .. NumSlots
Threads == 1 .. MaxThreads

\* self.slot_keys: the slots in construction order.
slot_keys == [i \in 1 .. NumSlots |-> i]

KeyName(k) == "insect" \o ToString(k)

(***************************************************************************)
(* Audio files.  A path is <<name, key>>; key is 0 for the quiz clips.     *)
(***************************************************************************)
sound_wav(k) == <<"_sound.wav", k>>
narration_wav(k) == <<"_narration.wav", k>>
QUIZ_WELCOME_WAV == <<"quiz_welcome.wav", 0>>
QUIZ_READY_WAV == <<"quiz_ready.wav", 0>>
QUIZ_ABORT_WAV == <<"quiz_abort.wav", 0>>
CORRECT_WAV == <<"correct.wav", 0>>
INCORRECT_WAV == <<"incorrect.wav", 0>>
\* first_existing_ci(SOUNDS_DIR, "quiz_complete.wav", ...): the first of the
\* four spellings that exists, here one path.
QUIZ_COMPLETE_WAV == <<"quiz_complete.wav", 0>>

WavName(w) == IF w[2] = 0 THEN w[1] ELSE KeyName(w[2]) \o w[1]

RequiredFiles == {sound_wav(k) : k \in Keys} \cup {CORRECT_WAV, INCORRECT_WAV}
OptionalFiles ==
    {narration_wav(k) : k \in Keys}
        \cup {QUIZ_WELCOME_WAV, QUIZ_READY_WAV, QUIZ_ABORT_WAV, QUIZ_COMPLETE_WAV}

\* The contents of the sounds directory the runs start from: every clip
\* present, or only the required ones.
FileConfigs == {RequiredFiles \cup OptionalFiles, RequiredFiles}

\* Sounds directories with clips of the quiz missing: the short clip of
\* slot 1 (four playable slots are left), the short clips of slots 1 and 2
\* (three are left), correct.wav, incorrect.wav.
ShortFileConfigs ==
    {(RequiredFiles \cup OptionalFiles) \ missing :
        missing \in {{sound_wav(1)}, {sound_wav(1), sound_wav(2)},
                     {CORRECT_WAV}, {INCORRECT_WAV}}}

(***************************************************************************)
(* Values.                                                                 *)
(***************************************************************************)
\* self._pressed: ("insect", key), ("quiz", "quiz") or None.
NoPress == <<"none", 0>>
InsectPress(k) == <<"insect", k>>
QuizPress == <<"quiz", 0>>

\* The after_done continuations handed to _play_audio_locked.
NoCb == <<"none", 0>>
LearnAfterCb(k) == <<"learn_after", k>>
StatusReadyCb == <<"status_ready", 0>>
PlayQuestionCb == <<"_play_question", 0>>
StartAnswerWindowCb == <<"_start_answer_window", 0>>
FeedbackAfterCb == <<"feedback_after", 0>>

\* A root.after handle: no timer, a scheduled timer, or a timer scheduled
\* while an audio completion is being handed over (see Busy).
NoJob == "none"
Job == "scheduled"
NewJob == "new"

\* No clip: the wav_path of a thread slot that is not in use
NoWav == <<"none", 0>>

\* A worker thread slot.  pc: where _play_thread stands; cur: its token
\* equals self._token; ps: its player process; wav: its wav_path; cb: the
\* after_done of its on_done closure; young: started while a completion was
\* in flight.
NoThread ==
    [pc |-> "none", cur |-> FALSE, ps |-> "none", wav |-> NoWav, cb |-> NoCb,
     young |-> FALSE]

\* The random draws a handler consumes.
Draws == [seq : 1 .. MaxDraws, opt : 1 .. MaxDraws, rot : 0 .. MaxDraws - 1]
NoDraw == [seq |-> 1, opt |-> 1, rot |-> 0]
\* The draws of a handler that only samples the round sequence, and of one
\* that only picks the answer options.
SequenceDraws == {d \in Draws : d.opt = 1 /\ d.rot = 0}
OptionDraws == {d \in Draws : d.seq = 1}

VARIABLES
    exists,              \* the audio files present under SOUNDS_DIR
    \* AudioPlayer
    stop_event,          \* self._stop_event
    proc,                \* self._proc: 0 None, t the process of thread t,
                         \* -1 a process whose thread has ended
    thr,                 \* the worker threads; self._token is kept as the
                         \* flag cur of each thread (token = self._token)
    uiq,                 \* root.after(0, ...) callbacks not yet run
    \* InsectController
    pressed,             \* self._pressed
    input_locked,        \* self.input_locked
    hold_jobs,           \* self._hold_jobs: key -> scheduled hold timer
    hold_fired,          \* self._hold_fired
    quiz_job,            \* self._quiz_job
    quiz_hold_fired,     \* self._quiz_hold_fired
    quiz_active,         \* self.quiz_active
    quiz_waiting,        \* self.quiz_waiting
    q_index,             \* self.q_index
    score,               \* self.score
    answer_timeout_job,  \* self._answer_timeout_job
    quiz_options,        \* self.quiz_options
    quiz_sequence,       \* self.quiz_sequence
    flash_job,           \* self._flash_job
    flash_fn,            \* the tick closure self._flash_job runs
    flash_end_job,       \* self._flash_end_job
    tk_ticks,            \* the pending root.after timers that run a tick
    tk_ends,             \* the pending root.after timers that run _end_flash
    flash_on,            \* self._flash_on
    flash_keys,          \* self._flash_keys
    flash_map,           \* self._flash_map
    leds,                \* the lamp colour of each slot (TkLedOutput)
    status,              \* the status text
    \* Environment and history
    held,                \* the controls physically held down (0: Quiz)
    ev,                  \* the last step: a user event <<kind, control>> or Internal
    \* Web front end: the session of one browser, and its history
    bee_order,           \* session["bee_order"]; <<>> when absent
    last_bee,            \* session["last_bee"]; 0 when absent
    dealt,               \* the items dealt since the last (re)shuffle
    gave_up              \* the last visit used up its re-shuffles and dealt
                         \* the item of the visit before it

webvars == <<bee_order, last_bee, dealt, gave_up>>

ctlvars ==
    <<exists, stop_event, proc, thr, uiq, pressed, input_locked, hold_jobs,
      hold_fired, quiz_job, quiz_hold_fired, quiz_active, quiz_waiting, q_index,
      score, answer_timeout_job, quiz_options, quiz_sequence, flash_job,
      flash_fn, flash_end_job, tk_ticks, tk_ends, flash_on, flash_keys,
      flash_map, leds, status, held, ev>>

vars == <<ctlvars, webvars>>

\* The program state as one record; ovf is set by a play that finds no free
\* thread slot (the bound MaxThreads), and such a step is not taken.
State ==
    [exists |-> exists, stop_event |-> stop_event, proc |-> proc, thr |-> thr,
     uiq |-> uiq, pressed |-> pressed, input_locked |-> input_locked,
     hold_jobs |-> hold_jobs, hold_fired |-> hold_fired, quiz_job |-> quiz_job,
     quiz_hold_fired |-> quiz_hold_fired, quiz_active |-> quiz_active,
     quiz_waiting |-> quiz_waiting, q_index |-> q_index, score |-> score,
     answer_timeout_job |-> answer_timeout_job, quiz_options |-> quiz_options,
     quiz_sequence |-> quiz_sequence, flash_job |-> flash_job,
     flash_fn |-> flash_fn, flash_end_job |-> flash_end_job,
     tk_ticks |-> tk_ticks, tk_ends |-> tk_ends,
     flash_on |-> flash_on, flash_keys |-> flash_keys, flash_map |-> flash_map,
     leds |-> leds, status |-> status, ovf |-> FALSE]

AllGray == [k \in Keys |-> "gray"]
\* An empty colour map: "" marks a key the dict does not hold.
NoMap == [k \in Keys |-> ""]

\* AudioPlayer.__init__ and InsectController.__init__; the lamps are created
\* gray (build_ui) and the status text is "Ready" (main).
InitState ==
    /\ stop_event = FALSE
    /\ proc = 0
    /\ thr = [t \in Threads |-> NoThread]
    /\ uiq = <<>>
    /\ pressed = NoPress
    /\ input_locked = FALSE
    /\ hold_jobs = [k \in Keys |-> NoJob]
    /\ hold_fired = {}
    /\ quiz_job = NoJob
    /\ quiz_hold_fired = FALSE
    /\ quiz_active = FALSE
    /\ quiz_waiting = FALSE
    /\ q_index = 0
    /\ score = 0
    /\ answer_timeout_job = NoJob
    /\ quiz_options = <<>>
    /\ quiz_sequence = <<>>
    /\ flash_job = NoJob
    /\ flash_fn = "none"
    /\ flash_end_job = NoJob
    /\ tk_ticks = 0
    /\ tk_ends = 0
    /\ flash_on = FALSE
    /\ flash_keys = <<>>
    /\ flash_map = NoMap
    /\ leds = AllGray
    /\ status = "Ready"
    /\ held = {}
    /\ ev = <<"init", 0>>
    /\ bee_order = <<>>
    /\ last_bee = 0
    /\ dealt = {}
    /\ gave_up = FALSE

Init == exists \in FileConfigs /\ InitState

(***************************************************************************)
(* Timing.  The hand-over of a clip's end to the event loop (the worker's  *)
(* 50 ms poll, its final check, root.after(0, on_ui)) and a worker's       *)
(* start-up take milliseconds; every root.after delay of the controller is *)
(* at least 250 ms and a clip lasts at least as long.  Tk runs timers in   *)
(* the order of their expiry, so a timer scheduled, or a clip started,     *)
(* while such a hand-over is in flight cannot expire before it is done.    *)
(***************************************************************************)
\* A worker that plays its clip and has nothing to do but poll.
Steady(th) == th.pc = "loop" /\ th.ps = "alive" /\ th.cur

Busy(s) ==
    \/ s.uiq # <<>>
    \/ \E t \in Threads : s.thr[t].pc # "none" /\ ~Steady(s.thr[t])

Aged(j) == IF j = NewJob THEN Job ELSE j

\* Once nothing is in flight the timers and clips scheduled meanwhile are
\* ordinary ones.
Settle(s) ==
    IF Busy(s) THEN s
    ELSE [s EXCEPT !.hold_jobs = [k \in Keys |-> Aged(@[k])],
                   !.quiz_job = Aged(@),
                   !.answer_timeout_job = Aged(@),
                   !.flash_job = Aged(@),
                   !.flash_end_job = Aged(@),
                   !.thr = [t \in Threads |-> [@[t] EXCEPT !.young = FALSE]]]

(***************************************************************************)
(* AudioPlayer                                                             *)
(***************************************************************************)
\* proc.terminate() on the process of thread t.
Terminated(th) == [th EXCEPT !.ps = IF @ = "alive" THEN "killed" ELSE @]

\* self._token += 1: no thread's token, and no completion already handed to
\* the event loop, is the current one any more.
BumpToken(s) ==
    [s EXCEPT !.thr = [t \in Threads |-> [@[t] EXCEPT !.cur = FALSE]],
              !.uiq = [i \in DOMAIN @ |-> [@[i] EXCEPT !.cur = FALSE]]]

\* AudioPlayer.stop
audio_stop(s) ==
    LET s1 == [BumpToken(s) EXCEPT !.stop_event = TRUE]
    IN  IF s1.proc = 0 THEN s1
        ELSE [s1 EXCEPT !.thr = [t \in Threads |->
                                    IF t = s1.proc THEN Terminated(@[t]) ELSE @[t]],
                        !.proc = 0]

FreeThreads(s) == {t \in Threads : s.thr[t].pc = "none"}
MinOf(S) == CHOOSE x \in S : \A y \in S : x <= y

\* AudioPlayer.play(wav_path, on_done) with on_done the done_on_audio_thread
\* closure around after_done cb.
audio_play(s, wav, cb) ==
    IF wav \notin s.exists THEN s
    ELSE LET s1 == [BumpToken(audio_stop(s)) EXCEPT !.stop_event = FALSE]
         IN  IF FreeThreads(s1) = {} THEN [s1 EXCEPT !.ovf = TRUE]
             ELSE [s1 EXCEPT !.thr[MinOf(FreeThreads(s1))] =
                       [pc |-> "start", cur |-> TRUE, ps |-> "none", wav |-> wav,
                        cb |-> cb, young |-> TRUE]]

(***************************************************************************)
(* InsectController: input lock, presses, locked playback                  *)
(***************************************************************************)
\* _lock_inputs / _unlock_inputs (_apply_ui_state only configures widgets)
lock_inputs(s) == [s EXCEPT !.input_locked = TRUE]
unlock_inputs(s) == [s EXCEPT !.input_locked = FALSE]

\* A faulty _begin_press that tests the lock but not the recorded press.
begin_press_ok_ignores_pressed(s) == ~s.input_locked

\* _begin_press: its result, and the state it leaves
begin_press_ok(s) == ~s.input_locked /\ s.pressed = NoPress
begin_press(s, p) == IF begin_press_ok(s) THEN [s EXCEPT !.pressed = p] ELSE s

\* _end_press
end_press(s, p) == IF s.pressed = p THEN [s EXCEPT !.pressed = NoPress] ELSE s

\* root.after(0, f) for a bare continuation (unlock FALSE) or for on_ui
\* (unlock TRUE).  cur records whether the play request the completion
\* belongs to still holds the current token; the program never reads it.
Post(s, cb, unlock, cur) ==
    [s EXCEPT !.uiq = Append(@, [cb |-> cb, unlock |-> unlock, cur |-> cur])]

\* _play_audio_locked
play_audio_locked(s, wav, cb) ==
    IF wav \notin s.exists
    THEN IF cb # NoCb THEN Post(s, cb, FALSE, TRUE) ELSE s
    ELSE audio_play(lock_inputs(s), wav, cb)

(***************************************************************************)
(* Flash helpers                                                           *)
(***************************************************************************)
\* A faulty _stop_flash that cancels the tick but forgets the end timer; the
\* formula of C1 must tell it from the real one.
stop_flash_keeps_end(s) ==
    [s EXCEPT !.flash_job = NoJob, !.flash_on = FALSE,
              !.tk_ticks = IF s.flash_job # NoJob THEN @ - 1 ELSE @,
              !.flash_fn = "none", !.flash_keys = <<>>, !.flash_map = NoMap]

\* A faulty _stop_flash that forgets the field of the tick timer without
\* cancelling the timer.
stop_flash_keeps_tick(s) ==
    [s EXCEPT !.flash_job = NoJob, !.flash_end_job = NoJob, !.flash_on = FALSE,
              !.tk_ends = IF s.flash_end_job # NoJob THEN @ - 1 ELSE @,
              !.flash_fn = "none", !.flash_keys = <<>>, !.flash_map = NoMap]

\* _stop_flash.  The cancelled tick was the only reader of _flash_keys and
\* _flash_map (each _flash_* call assigns them before its first tick), so
\* they are kept only while a tick is scheduled.  after_cancel removes the
\* timer a field names; a field names a pending timer or is None, as the
\* timer that fires is taken out of its field (FlashTick, FlashEnd).
stop_flash(s) ==
    [s EXCEPT !.flash_job = NoJob, !.flash_end_job = NoJob, !.flash_on = FALSE,
              !.tk_ticks = IF s.flash_job # NoJob THEN @ - 1 ELSE @,
              !.tk_ends = IF s.flash_end_job # NoJob THEN @ - 1 ELSE @,
              !.flash_fn = "none", !.flash_keys = <<>>, !.flash_map = NoMap]

\* leds.set_all("gray")
set_all_gray(s) == [s EXCEPT !.leds = AllGray]

\* _end_flash
end_flash(s) == set_all_gray(stop_flash(s))

InSeq(k, q) == \E i \in DOMAIN q : q[i] = k

\* tick() of _flash_uniform
tick_uniform(s, color) ==
    LET on == ~s.flash_on
    IN  [s EXCEPT !.flash_on = on,
                  !.leds = [k \in Keys |->
                               IF InSeq(k, s.flash_keys) /\ on THEN color ELSE "gray"],
                  !.flash_job = NewJob,
                  !.tk_ticks = @ + 1,
                  !.flash_fn = "uniform"]

\* tick() of _flash_multicolor
tick_multicolor(s) ==
    LET on == ~s.flash_on
    IN  [s EXCEPT !.flash_on = on,
                  !.leds = [k \in Keys |->
                               IF on /\ s.flash_map[k] # "" THEN s.flash_map[k]
                               ELSE "gray"],
                  !.flash_job = NewJob,
                  !.tk_ticks = @ + 1,
                  !.flash_fn = "multicolor"]

\* _flash_uniform(keys, color, interval_ms, duration_ms)
flash_uniform(s, keys, color) ==
    LET s1 == set_all_gray([stop_flash(s) EXCEPT !.flash_keys = keys,
                                                 !.flash_on = FALSE])
    IN  [tick_uniform(s1, color) EXCEPT !.flash_end_job = NewJob,
                                        !.tk_ends = @ + 1]

\* _flash_multicolor(color_map, interval_ms, duration_ms)
flash_multicolor(s, color_map) ==
    LET s1 == set_all_gray([stop_flash(s) EXCEPT !.flash_map = color_map,
                                                 !.flash_on = FALSE])
    IN  [tick_multicolor(s1) EXCEPT !.flash_end_job = NewJob,
                                    !.tk_ends = @ + 1]

(***************************************************************************)
(* Learn mode                                                              *)
(***************************************************************************)
\* _play_slot_audio(key, short)
play_slot_audio(s, key, short) ==
    LET wav == IF short \/ narration_wav(key) \notin s.exists
               THEN sound_wav(key) ELSE narration_wav(key)
    IN  IF wav \notin s.exists
        THEN [s EXCEPT !.status = "Missing: " \o WavName(wav)]
        ELSE LET s1 == [set_all_gray(end_flash(s)) EXCEPT
                            !.leds[key] = "green",
                            !.status = (IF short THEN "Sound: " ELSE "Hold: ")
                                           \o KeyName(key)]
             IN  play_audio_locked(s1, wav, LearnAfterCb(key))

\* after() of _play_slot_audio
learn_after(s, key) == [s EXCEPT !.leds[key] = "gray", !.status = "Ready"]

\* A faulty on_insect_down without the quiz_active test.
on_insect_down_in_quiz(s, key) ==
    IF ~begin_press_ok(s) THEN s
    ELSE [begin_press(s, InsectPress(key)) EXCEPT
              !.hold_fired = @ \ {key},
              !.hold_jobs[key] = NewJob]

\* on_insect_down
on_insect_down(s, key) ==
    IF s.quiz_active THEN s
    ELSE IF ~begin_press_ok(s) THEN s
    ELSE [begin_press(s, InsectPress(key)) EXCEPT
              !.hold_fired = @ \ {key},
              !.hold_jobs[key] = NewJob]

\* _insect_hold_fire, run by the hold timer of key
insect_hold_fire(s, key) ==
    IF s.pressed # InsectPress(key) THEN s
    ELSE play_slot_audio([s EXCEPT !.hold_fired = @ \cup {key}], key, FALSE)

(***************************************************************************)
(* Quiz / Abort                                                            *)
(***************************************************************************)
\* abort_quiz
\* Variant: abort without the forced unlock
abort_quiz_keeps_lock(s) ==
    LET s1 == [s EXCEPT !.answer_timeout_job = NoJob, !.quiz_job = NoJob]
        s2 == audio_stop(stop_flash(s1))
        s3 == [s2 EXCEPT !.quiz_active = FALSE,
                         !.quiz_waiting = FALSE,
                         !.q_index = 0,
                         !.score = 0,
                         !.quiz_options = <<>>,
                         !.quiz_sequence = <<>>,
                         !.pressed = NoPress,
                         !.status = "Quiz: Aborted"]
    IN  IF QUIZ_ABORT_WAV \in s3.exists
        THEN play_audio_locked(s3, QUIZ_ABORT_WAV, StatusReadyCb)
        ELSE [s3 EXCEPT !.status = "Ready"]

abort_quiz(s) ==
    LET s1 == [s EXCEPT !.answer_timeout_job = NoJob, !.quiz_job = NoJob]
        s2 == audio_stop(stop_flash(s1))
        s3 == [s2 EXCEPT !.input_locked = FALSE,
                         !.quiz_active = FALSE,
                         !.quiz_waiting = FALSE,
                         !.q_index = 0,
                         !.score = 0,
                         !.quiz_options = <<>>,
                         !.quiz_sequence = <<>>,
                         !.pressed = NoPress,
                         !.status = "Quiz: Aborted"]
    IN  IF QUIZ_ABORT_WAV \in s3.exists
        THEN play_audio_locked(s3, QUIZ_ABORT_WAV, StatusReadyCb)
        ELSE [s3 EXCEPT !.status = "Ready"]

\* A faulty on_abort_pressed without the quiz_active test.
on_abort_pressed_anytime(s) == abort_quiz(s)

\* on_abort_pressed
on_abort_pressed(s) == IF ~s.quiz_active THEN s ELSE abort_quiz(s)

\* _end_quiz
end_quiz(s) ==
    LET s1 == [end_flash([s EXCEPT !.quiz_active = FALSE, !.quiz_waiting = FALSE])
                   EXCEPT !.pressed = NoPress, !.status = "Quiz: Complete"]
    IN  IF QUIZ_COMPLETE_WAV \in s1.exists
        THEN play_audio_locked(s1, QUIZ_COMPLETE_WAV, StatusReadyCb)
        ELSE [s1 EXCEPT !.status = "Ready"]

\* A faulty sample that draws with replacement.
Sample_with_replacement(population, n, i) ==
    [j \in 1 .. n |-> population[((i - 1) % Len(population)) + 1]]

\* random.sample(population, n): n distinct elements of the list; the draw i
\* picks the run of n elements that starts at position i, wrapping around.
Sample(population, n, i) ==
    [j \in 1 .. n |-> population[((i + j - 2) % Len(population)) + 1]]

\* random.shuffle(x): a permutation of x; the draw r rotates it by r places.
Shuffle(x, r) == [j \in 1 .. Len(x) |-> x[((j + r - 1) % Len(x)) + 1]]

\* A faulty _pick_4_options that samples the three other options from all
\* slots, the correct one included.
pick_4_options_from_all(correct_key, d) ==
    Shuffle(Sample(slot_keys, 3, d.opt) \o <<correct_key>>, d.rot)

\* _pick_4_options
pick_4_options(correct_key, d) ==
    LET others == SelectSeq(slot_keys, LAMBDA k : k # correct_key)
        picks == Sample(others, 3, d.opt) \o <<correct_key>>
    IN  Shuffle(picks, d.rot)

\* self.quiz_sequence[self.q_index] raises IndexError out of range: the
\* handler stops there and Tk reports the exception.
HasRound(s) == s.q_index + 1 \in DOMAIN s.quiz_sequence
CorrectKey(s) == s.quiz_sequence[s.q_index + 1]

\* _play_question
play_question(s, d) ==
    IF ~s.quiz_active THEN s
    ELSE IF ~HasRound(s) THEN s
    ELSE LET correct_key == CorrectKey(s)
             s1 == [s EXCEPT !.quiz_options = pick_4_options(correct_key, d),
                             !.quiz_waiting = FALSE]
             insect_wav == sound_wav(correct_key)
         IN  IF insect_wav \notin s1.exists
             THEN abort_quiz([s1 EXCEPT !.status = "Missing: " \o WavName(insect_wav)])
             ELSE play_audio_locked(
                      [s1 EXCEPT !.status = "Quiz: Question " \o ToString(s.q_index + 1)],
                      insect_wav, StartAnswerWindowCb)

\* _start_answer_window
\* Variant: the answer window opens without its timeout timer
start_answer_window_no_timer(s) ==
    IF ~s.quiz_active THEN s
    ELSE LET s1 == [s EXCEPT !.quiz_waiting = TRUE,
                             !.status = "Quiz: Choose an insect"]
         IN  flash_uniform(s1, s1.quiz_options, "yellow")

start_answer_window(s) ==
    IF ~s.quiz_active THEN s
    ELSE LET s1 == [s EXCEPT !.quiz_waiting = TRUE,
                             !.status = "Quiz: Choose an insect"]
         IN  [flash_uniform(s1, s1.quiz_options, "yellow") EXCEPT
                  !.answer_timeout_job = NewJob]

\* _end_quiz is reached from _next_or_end
\* Variant: the quiz ends only once the index is past the sequence
next_or_end_overruns(s, d) ==
    IF ~s.quiz_active THEN s
    ELSE LET s1 == [s EXCEPT !.q_index = @ + 1]
         IN  IF s1.q_index > Len(s1.quiz_sequence) THEN end_quiz(s1)
             ELSE play_question(s1, d)

\* Variant: the round index advances by two
next_or_end_skips(s, d) ==
    IF ~s.quiz_active THEN s
    ELSE LET s1 == [s EXCEPT !.q_index = @ + 2]
         IN  IF s1.q_index >= Len(s1.quiz_sequence) THEN end_quiz(s1)
             ELSE play_question(s1, d)

next_or_end(s, d) ==
    IF ~s.quiz_active THEN s
    ELSE LET s1 == [s EXCEPT !.q_index = @ + 1]
         IN  IF s1.q_index >= Len(s1.quiz_sequence) THEN end_quiz(s1)
             ELSE play_question(s1, d)

\* after() of _feedback
feedback_after(s, d) == next_or_end(end_flash(s), d)

\* A faulty _feedback whose colour map shows every option red, the correct
\* one included.
feedback_all_red(s, correct) ==
    LET wav == IF correct THEN CORRECT_WAV ELSE INCORRECT_WAV
    IN  IF wav \notin s.exists
        THEN abort_quiz([s EXCEPT !.status = "Missing: " \o WavName(wav)])
        ELSE LET s1 == [s EXCEPT !.status = IF correct THEN "Quiz: Correct"
                                            ELSE "Quiz: Not correct"]
             IN  IF ~HasRound(s1) THEN s1
                 ELSE LET color_map == [k \in Keys |->
                                           IF InSeq(k, s1.quiz_options) THEN "red"
                                           ELSE ""]
                      IN  play_audio_locked(flash_multicolor(s1, color_map),
                                            wav, FeedbackAfterCb)

\* _feedback(correct)
feedback(s, correct) ==
    LET wav == IF correct THEN CORRECT_WAV ELSE INCORRECT_WAV
    IN  IF wav \notin s.exists
        THEN abort_quiz([s EXCEPT !.status = "Missing: " \o WavName(wav)])
        ELSE LET s1 == [s EXCEPT !.status = IF correct THEN "Quiz: Correct"
                                            ELSE "Quiz: Not correct"]
             IN  IF ~HasRound(s1) THEN s1
                 ELSE LET correct_key == CorrectKey(s1)
                          color_map == [k \in Keys |->
                                           IF k = correct_key THEN "green"
                                           ELSE IF InSeq(k, s1.quiz_options) THEN "red"
                                           ELSE ""]
                      IN  play_audio_locked(flash_multicolor(s1, color_map),
                                            wav, FeedbackAfterCb)

\* A faulty _timeout that counts the expired round as a point.
timeout_scored(s) ==
    LET s0 == [s EXCEPT !.answer_timeout_job = NoJob]
    IN  IF ~s0.quiz_waiting \/ ~s0.quiz_active THEN s0
        ELSE feedback(end_flash([s0 EXCEPT !.quiz_waiting = FALSE,
                                           !.score = @ + 1]), FALSE)

\* _timeout, run by the answer timer
timeout(s) ==
    LET s0 == [s EXCEPT !.answer_timeout_job = NoJob]
    IN  IF ~s0.quiz_waiting \/ ~s0.quiz_active THEN s0
        ELSE feedback(end_flash([s0 EXCEPT !.quiz_waiting = FALSE]), FALSE)

\* A faulty _handle_answer that leaves the answer timer scheduled.
handle_answer_keeps_timer(s, key) ==
    IF ~s.quiz_waiting \/ ~s.quiz_active THEN s
    ELSE IF s.input_locked THEN s
    ELSE IF ~InSeq(key, s.quiz_options) THEN s
    ELSE LET s1 == end_flash([s EXCEPT !.quiz_waiting = FALSE])
         IN  IF ~HasRound(s1) THEN s1
             ELSE LET correct == (key = CorrectKey(s1))
                      s2 == IF correct THEN [s1 EXCEPT !.score = @ + 1] ELSE s1
                  IN  feedback(s2, correct)

\* A faulty _handle_answer without the membership test on quiz_options.
handle_answer_any_key(s, key) ==
    IF ~s.quiz_waiting \/ ~s.quiz_active THEN s
    ELSE IF s.input_locked THEN s
    ELSE LET s1 == end_flash([s EXCEPT !.quiz_waiting = FALSE,
                                       !.answer_timeout_job = NoJob])
         IN  IF ~HasRound(s1) THEN s1
             ELSE LET correct == (key = CorrectKey(s1))
                      s2 == IF correct THEN [s1 EXCEPT !.score = @ + 1] ELSE s1
                  IN  feedback(s2, correct)

\* _handle_answer
handle_answer(s, key) ==
    IF ~s.quiz_waiting \/ ~s.quiz_active THEN s
    ELSE IF s.input_locked THEN s
    ELSE IF ~InSeq(key, s.quiz_options) THEN s
    ELSE LET s1 == end_flash([s EXCEPT !.quiz_waiting = FALSE,
                                       !.answer_timeout_job = NoJob])
         IN  IF ~HasRound(s1) THEN s1
             ELSE LET correct == (key = CorrectKey(s1))
                      s2 == IF correct THEN [s1 EXCEPT !.score = @ + 1] ELSE s1
                  IN  feedback(s2, correct)

\* A faulty on_insect_up without the _hold_fired test.
on_insect_up_replays(s, key) ==
    LET s1 == end_press(s, InsectPress(key))
    IN  IF s1.quiz_waiting THEN handle_answer(s1, key)
        ELSE IF s1.quiz_active \/ s1.input_locked THEN s1
        ELSE play_slot_audio([s1 EXCEPT !.hold_jobs[key] = NoJob], key, TRUE)

\* on_insect_up
on_insect_up(s, key) ==
    LET s1 == end_press(s, InsectPress(key))
    IN  IF s1.quiz_waiting THEN handle_answer(s1, key)
        ELSE IF s1.quiz_active \/ s1.input_locked THEN s1
        ELSE LET s2 == [s1 EXCEPT !.hold_jobs[key] = NoJob]
             IN  IF key \in s2.hold_fired THEN s2
                 ELSE play_slot_audio(s2, key, TRUE)

\* on_quiz_down
on_quiz_down(s) ==
    IF s.quiz_active THEN s
    ELSE IF ~begin_press_ok(s) THEN s
    ELSE [begin_press(s, QuizPress) EXCEPT
              !.quiz_hold_fired = FALSE,
              !.status = "Quiz: holding...",
              !.quiz_job = NewJob]

\* A faulty on_quiz_up that leaves the quiz hold timer scheduled.
on_quiz_up_keeps_timer(s) ==
    LET s1 == end_press(s, QuizPress)
    IN  IF s1.quiz_active \/ s1.input_locked \/ s1.quiz_hold_fired THEN s1
        ELSE IF QUIZ_WELCOME_WAV \in s1.exists
        THEN play_audio_locked([s1 EXCEPT !.status = "Quiz: Welcome"],
                               QUIZ_WELCOME_WAV, StatusReadyCb)
        ELSE [s1 EXCEPT !.status = "Ready"]

\* on_quiz_up
on_quiz_up(s) ==
    LET s1 == [end_press(s, QuizPress) EXCEPT !.quiz_job = NoJob]
    IN  IF s1.quiz_active \/ s1.input_locked \/ s1.quiz_hold_fired THEN s1
        ELSE IF QUIZ_WELCOME_WAV \in s1.exists
        THEN play_audio_locked([s1 EXCEPT !.status = "Quiz: Welcome"],
                               QUIZ_WELCOME_WAV, StatusReadyCb)
        ELSE [s1 EXCEPT !.status = "Ready"]

\* eligible of _start_quiz: the slots whose short clip exists
EligibleKeys(files) == SelectSeq(slot_keys, LAMBDA k : sound_wav(k) \in files)

\* rounds = min(QUIZ_ROUNDS, len(eligible)) and random.sample(eligible, rounds)
\* of _start_quiz, for quiz_rounds rounds and the draw i
quiz_sequence_of(files, quiz_rounds, i) ==
    LET eligible == EligibleKeys(files)
        rounds == IF quiz_rounds < Len(eligible) THEN quiz_rounds ELSE Len(eligible)
    IN  Sample(eligible, rounds, i)

\* A faulty _start_quiz that does not validate the clips.
start_quiz_unvalidated(s, d) ==
    LET s1 == [s EXCEPT !.quiz_sequence = quiz_sequence_of(s.exists, QuizRounds, d.seq),
                        !.quiz_active = TRUE,
                        !.quiz_waiting = FALSE,
                        !.q_index = 0,
                        !.score = 0,
                        !.pressed = NoPress]
        s2 == set_all_gray(end_flash(s1))
    IN  IF QUIZ_READY_WAV \in s2.exists
        THEN play_audio_locked([s2 EXCEPT !.status = "Quiz: Ready"],
                               QUIZ_READY_WAV, PlayQuestionCb)
        ELSE play_question(s2, d)

\* _start_quiz
start_quiz(s, d) ==
    LET eligible == EligibleKeys(s.exists)
    IN  IF Len(eligible) < 4
        THEN [s EXCEPT !.status = "Need at least 4 insect*_sound.wav files for the quiz.",
                       !.pressed = NoPress]
        ELSE IF CORRECT_WAV \notin s.exists \/ INCORRECT_WAV \notin s.exists
        THEN [s EXCEPT !.status = "Missing: correct.wav or incorrect.wav",
                       !.pressed = NoPress]
        ELSE LET s1 == [s EXCEPT !.quiz_sequence =
                                     quiz_sequence_of(s.exists, QuizRounds, d.seq),
                                 !.quiz_active = TRUE,
                                 !.quiz_waiting = FALSE,
                                 !.q_index = 0,
                                 !.score = 0,
                                 !.pressed = NoPress]
                 s2 == set_all_gray(end_flash(s1))
             IN  IF QUIZ_READY_WAV \in s2.exists
                 THEN play_audio_locked([s2 EXCEPT !.status = "Quiz: Ready"],
                                        QUIZ_READY_WAV, PlayQuestionCb)
                 ELSE play_question(s2, d)

\* _start_quiz_hold_fire, run by the quiz hold timer
start_quiz_hold_fire(s, d) ==
    LET s1 == [s EXCEPT !.quiz_hold_fired = TRUE, !.quiz_job = NoJob]
    IN  IF s1.pressed # QuizPress THEN s1 ELSE start_quiz(s1, d)

\* The after_done continuation cb
run_after_done(s, cb, d) ==
    CASE cb[1] = "learn_after" -> learn_after(s, cb[2])
      [] cb[1] = "status_ready" -> [s EXCEPT !.status = "Ready"]
      [] cb[1] = "_play_question" -> play_question(s, d)
      [] cb[1] = "_start_answer_window" -> start_answer_window(s)
      [] cb[1] = "feedback_after" -> feedback_after(s, d)
      [] OTHER -> s

\* on_ui of _play_audio_locked (e.unlock), or a bare after_done
on_ui(s, e, d) ==
    run_after_done(IF e.unlock THEN unlock_inputs(s) ELSE s, e.cb, d)

(***************************************************************************)
(* AudioPlayer._play_thread: the steps of worker thread t                  *)
(***************************************************************************)
\* The thread returns; self._proc may still refer to its (ended) process.
thread_exit(s, t) ==
    [s EXCEPT !.thr[t] = NoThread, !.proc = IF @ = t THEN -1 ELSE @]

\* _play_subprocess: subprocess.Popen(cmd)
play_subprocess_popen(s, t) == [s EXCEPT !.thr[t].ps = "alive", !.thr[t].pc = "setproc"]

\* _play_subprocess: with self._lock: self._proc = proc
play_subprocess_setproc(s, t) == [s EXCEPT !.proc = t, !.thr[t].pc = "loop"]

\* _play_subprocess: one round of the poll loop that leaves it
play_subprocess_loop(s, t) ==
    IF s.stop_event \/ ~s.thr[t].cur
    THEN [s EXCEPT !.thr[t] = [Terminated(@) EXCEPT !.pc = "final"]]
    ELSE [s EXCEPT !.thr[t].pc = "final"]

\* A faulty final check that tests the stop event but not the token.
play_thread_final_no_token(s, t) ==
    IF ~s.stop_event
    THEN [s EXCEPT !.thr[t].pc = "call"]
    ELSE thread_exit(s, t)

\* finally: if on_done and (not self._stop_event.is_set()) and token == self._token
play_thread_final(s, t) ==
    IF ~s.stop_event /\ s.thr[t].cur
    THEN [s EXCEPT !.thr[t].pc = "call"]
    ELSE thread_exit(s, t)

\* on_done(): done_on_audio_thread queues on_ui with root.after(0, on_ui)
done_on_audio_thread(s, t) ==
    thread_exit(Post(s, s.thr[t].cb, TRUE, s.thr[t].cur), t)

(***************************************************************************)
(* Actions                                                                 *)
(***************************************************************************)
\* A worker step that is pending (start-up, noticing a stop or the end of the
\* clip, the final check, the hand-over) reads and writes only the player;
\* a handler that leaves the player alone commutes with it.  Such a handler
\* is taken once the workers are quiet; one that stops or starts a clip, or
\* runs a queued completion, interleaves with every worker step.
Quiet == \A t \in Threads : thr[t].pc = "none" \/ Steady(thr[t])

TouchesAudio(s) ==
    <<s.thr, s.proc, s.stop_event, s.uiq>> # <<thr, proc, stop_event, uiq>>

\* The step to state s, with h held and e the event handled.
Commit(s0, h, e) ==
    /\ ~s0.ovf
    /\ LET s == Settle(s0)
       IN  /\ exists' = s.exists
           /\ stop_event' = s.stop_event
           /\ proc' = s.proc
           /\ thr' = s.thr
           /\ uiq' = s.uiq
           /\ pressed' = s.pressed
           /\ input_locked' = s.input_locked
           /\ hold_jobs' = s.hold_jobs
           /\ hold_fired' = s.hold_fired
           /\ quiz_job' = s.quiz_job
           /\ quiz_hold_fired' = s.quiz_hold_fired
           /\ quiz_active' = s.quiz_active
           /\ quiz_waiting' = s.quiz_waiting
           /\ q_index' = s.q_index
           /\ score' = s.score
           /\ answer_timeout_job' = s.answer_timeout_job
           /\ quiz_options' = s.quiz_options
           /\ quiz_sequence' = s.quiz_sequence
           /\ flash_job' = s.flash_job
           /\ flash_fn' = s.flash_fn
           /\ flash_end_job' = s.flash_end_job
           /\ tk_ticks' = s.tk_ticks
           /\ tk_ends' = s.tk_ends
           /\ flash_on' = s.flash_on
           /\ flash_keys' = s.flash_keys
           /\ flash_map' = s.flash_map
           /\ leds' = s.leds
           /\ status' = s.status
    /\ held' = h
    /\ ev' = e
    /\ UNCHANGED webvars

\* The event recorded for a timer, a queued callback or a worker step
Internal == <<"internal", 0>>

\* A handler run by the event loop
Handle(s0, h, e) == (Quiet \/ TouchesAudio(s0)) /\ Commit(s0, h, e)

CanPress(c, lim) == c \notin held /\ Cardinality(held) < lim

\* <ButtonPress-1> / <ButtonRelease-1> on the button of slot k
InsectDown(k, lim) ==
    /\ CanPress(k, lim)
    /\ Handle(on_insect_down(State, k), held \cup {k}, <<"down", k>>)

InsectUp(k) ==
    /\ k \in held
    /\ Handle(on_insect_up(State, k), held \ {k}, <<"up", k>>)

\* <ButtonPress-1> / <ButtonRelease-1> on the Quiz button (control 0)
QuizDown(lim) ==
    /\ CanPress(0, lim)
    /\ Handle(on_quiz_down(State), held \cup {0}, <<"down", 0>>)

QuizUp ==
    /\ 0 \in held
    /\ Handle(on_quiz_up(State), held \ {0}, <<"up", 0>>)

\* The Abort button's command.  _apply_ui_state disables the button while no
\* quiz is active, and on_abort_pressed returns at once in that case: in
\* both readings a press outside a quiz changes nothing.
AbortPressed == Handle(on_abort_pressed(State), held, <<"abort", 0>>)

\* The timers of root.after
InsectHoldFire(k) ==
    /\ hold_jobs[k] = Job
    /\ pressed = InsectPress(k) => k <= MaxNarrated
    /\ Handle(insect_hold_fire([State EXCEPT !.hold_jobs[k] = NoJob], k), held,
              Internal)

QuizHoldFire ==
    /\ quiz_job = Job
    /\ \E d \in (IF QUIZ_READY_WAV \in exists THEN SequenceDraws ELSE Draws) :
           Handle(start_quiz_hold_fire(State, d), held, Internal)

AnswerTimeout ==
    /\ answer_timeout_job = Job
    /\ Handle(timeout(State), held, Internal)

\* The timer that fires is no longer pending
FiredTick(s) == [s EXCEPT !.flash_job = NoJob, !.tk_ticks = @ - 1]
FiredEnd(s) == [s EXCEPT !.flash_end_job = NoJob, !.tk_ends = @ - 1]

FlashTick ==
    /\ flash_job = Job
    /\ Handle(IF flash_fn = "uniform" THEN tick_uniform(FiredTick(State), "yellow")
              ELSE tick_multicolor(FiredTick(State)),
              held, Internal)

FlashEnd ==
    /\ flash_end_job = Job
    /\ Handle(end_flash(FiredEnd(State)), held, Internal)

\* The event loop runs the oldest root.after(0, ...) callback
RunUi ==
    /\ uiq # <<>>
    /\ \E d \in (IF Head(uiq).cb \in {PlayQuestionCb, FeedbackAfterCb}
                   THEN OptionDraws ELSE {NoDraw}) :
           Handle(on_ui([State EXCEPT !.uiq = Tail(@)], Head(uiq), d), held, Internal)

\* The steps of worker thread t
WorkerPopen(t) ==
    /\ thr[t].pc = "start"
    /\ Commit(play_subprocess_popen(State, t), held, Internal)

WorkerSetProc(t) ==
    /\ thr[t].pc = "setproc"
    /\ Commit(play_subprocess_setproc(State, t), held, Internal)

WorkerLoop(t) ==
    /\ thr[t].pc = "loop"
    /\ stop_event \/ ~thr[t].cur \/ thr[t].ps # "alive"
    /\ Commit(play_subprocess_loop(State, t), held, Internal)

WorkerFinal(t) ==
    /\ thr[t].pc = "final"
    /\ Commit(play_thread_final(State, t), held, Internal)

WorkerCall(t) ==
    /\ thr[t].pc = "call"
    /\ Commit(done_on_audio_thread(State, t), held, Internal)

\* The player process of thread t plays its clip to the end
ClipEnds(t) ==
    /\ thr[t].pc = "loop"
    /\ thr[t].ps = "alive"
    /\ ~thr[t].young
    /\ Commit([State EXCEPT !.thr[t].ps = "exited"], held, Internal)

Next ==
    \/ \E k \in Keys : InsectDown(k, MaxHeld)
    \/ \E k \in Keys : InsectUp(k)
    \/ QuizDown(MaxHeld)
    \/ QuizUp
    \/ AbortPressed
    \/ \E k \in Keys : InsectHoldFire(k)
    \/ QuizHoldFire
    \/ AnswerTimeout
    \/ FlashTick
    \/ FlashEnd
    \/ RunUi
    \/ \E t \in Threads : WorkerPopen(t)
    \/ \E t \in Threads : WorkerSetProc(t)
    \/ \E t \in Threads : WorkerLoop(t)
    \/ \E t \in Threads : WorkerFinal(t)
    \/ \E t \in Threads : WorkerCall(t)
    \/ \E t \in Threads : ClipEnds(t)

Spec == Init /\ [][Next]_vars

\* Two-hand runs in learn mode: the user may hold two controls (two of the
\* slots 1 .. HeldSlots and the Quiz button) at once, and releases the Quiz
\* button before its hold threshold, so that no quiz starts; every clip is
\* present.
InitHeld == Init /\ exists = RequiredFiles \cup OptionalFiles

NextHeld ==
    \/ \E k \in 1 .. HeldSlots : InsectDown(k, TwoHands)
    \/ \E k \in 1 .. HeldSlots : InsectUp(k)
    \/ QuizDown(TwoHands)
    \/ QuizUp
    \/ \E k \in Keys : InsectHoldFire(k)
    \/ RunUi
    \/ \E t \in Threads : WorkerPopen(t)
    \/ \E t \in Threads : WorkerSetProc(t)
    \/ \E t \in Threads : WorkerLoop(t)
    \/ \E t \in Threads : WorkerFinal(t)
    \/ \E t \in Threads : WorkerCall(t)
    \/ \E t \in Threads : ClipEnds(t)

SpecHeld == InitHeld /\ [][NextHeld]_vars

\* Runs that start from a sounds directory with clips of the quiz missing
InitShort == exists \in ShortFileConfigs /\ InitState

SpecShort == InitShort /\ [][Next]_vars

\* Runs in which a clip is deleted from the sounds directory during a quiz
\* (Path.exists() is evaluated at each use): incorrect.wav or the short clip
\* of slot 2.  The runs start with only the required clips, and the user
\* only plays quizzes: no slot is pressed outside a quiz.
Removable == {INCORRECT_WAV, sound_wav(2)}

FileRemoved(w) ==
    /\ quiz_active
    /\ w \in exists
    /\ Handle([State EXCEPT !.exists = @ \ {w}], held, <<"removed", 0>>)

InitVanish == exists = RequiredFiles /\ InitState

NextVanish ==
    \/ \E k \in Keys : quiz_active /\ InsectDown(k, MaxHeld)
    \/ \E k \in Keys : InsectUp(k)
    \/ QuizDown(MaxHeld)
    \/ QuizUp
    \/ AbortPressed
    \/ QuizHoldFire
    \/ AnswerTimeout
    \/ FlashTick
    \/ FlashEnd
    \/ RunUi
    \/ \E t \in Threads : WorkerPopen(t)
    \/ \E t \in Threads : WorkerSetProc(t)
    \/ \E t \in Threads : WorkerLoop(t)
    \/ \E t \in Threads : WorkerFinal(t)
    \/ \E t \in Threads : WorkerCall(t)
    \/ \E t \in Threads : ClipEnds(t)
    \/ \E w \in Removable : FileRemoved(w)

SpecVanish == InitVanish /\ [][NextVanish]_vars

\* Runs in which the event loop and the worker threads keep running and
\* clips come to an end: as long as a timer is due, a callback is queued, a
\* worker thread has a step to take or a clip is playing, one of these
\* happens (the ticks of a flash effect apart, which alone do not count as
\* progress).  The user is free.
InitLive == exists \in FileConfigs /\ InitState

SystemStep ==
    \/ \E k \in Keys : InsectHoldFire(k)
    \/ QuizHoldFire
    \/ AnswerTimeout
    \/ FlashEnd
    \/ RunUi
    \/ \E t \in Threads : WorkerPopen(t)
    \/ \E t \in Threads : WorkerSetProc(t)
    \/ \E t \in Threads : WorkerLoop(t)
    \/ \E t \in Threads : WorkerFinal(t)
    \/ \E t \in Threads : WorkerCall(t)
    \/ \E t \in Threads : ClipEnds(t)

\* The enabling condition of SystemStep, written out: a worker thread has a
\* step to take or its clip is playing, or the workers are quiet and a
\* callback is queued or a timer is due.
SystemPending ==
    \/ \E t \in Threads :
           \/ thr[t].pc \in {"start", "setproc", "final", "call"}
           \/ thr[t].pc = "loop" /\ (stop_event \/ ~thr[t].cur \/ thr[t].ps # "alive")
           \/ thr[t].pc = "loop" /\ thr[t].ps = "alive" /\ ~thr[t].young
    \/ /\ Quiet
       /\ \/ uiq # <<>>
          \/ answer_timeout_job = Job
          \/ flash_end_job = Job
          \/ quiz_job = Job
          \/ \E k \in Keys :
                 hold_jobs[k] = Job /\ (pressed = InsectPress(k) => k <= MaxNarrated)

\* Weak fairness of SystemStep: WF_vars(SystemStep) with its ENABLED
\* written out as SystemPending
Fairness == []<>(~SystemPending) \/ []<><<SystemStep>>_vars

SpecLive == InitLive /\ [][Next]_vars /\ Fairness

(***************************************************************************)
(* Web front end (app.py): the /interactive endpoint                       *)
(***************************************************************************)
\* len(BEE_IMAGES), and the bound of the re-shuffle loop (tries < 10)
NumBees == 8
MaxTries == 10

\* BEE_IDS: the item ids, in the order of BEE_IMAGES
BEE_IDS == [i \in 1 .. NumBees |-> i]

\* The outcomes of random.shuffle on a copy of BEE_IDS
Shuffles == Permutations(1 .. NumBees)

\* while order[0] == last and tries < 10: random.shuffle(order); tries += 1
\* draws holds the outcomes of the shuffles the loop makes, in order.
RECURSIVE reshuffle_loop(_, _, _, _)
reshuffle_loop(order, last, tries, draws) ==
    IF order[1] = last /\ tries < MaxTries
    THEN reshuffle_loop(Head(draws), last, tries + 1, Tail(draws))
    ELSE [order |-> order, tries |-> tries]

\* A faulty deck without the loop that avoids the immediate repeat.
new_deck_no_retry(last, first, draws) == [order |-> first, tries |-> 0]

\* if not order: a shuffled copy of BEE_IDS (first), re-shuffled while it
\* starts with the item dealt last
new_deck(last, first, draws) ==
    IF last # 0 /\ Len(first) > 1 /\ first[1] = last
    THEN reshuffle_loop(first, last, 0, draws)
    ELSE [order |-> first, tries |-> 0]

\* A faulty interactive that deals the head of the deck without removing it.
interactive_no_pop(order0, last, first, draws) ==
    LET fresh == order0 = <<>>
        deck == IF fresh THEN new_deck(last, first, draws)
                ELSE [order |-> order0, tries |-> 0]
    IN  [bee_order |-> deck.order, last_bee |-> Head(deck.order),
         fresh |-> fresh, tries |-> deck.tries]

\* interactive(): the session it leaves (bee_order, last_bee), whether it
\* built a new deck, and the re-shuffles it made
interactive(order0, last, first, draws) ==
    LET fresh == order0 = <<>>
        deck == IF fresh THEN new_deck(last, first, draws)
                ELSE [order |-> order0, tries |-> 0]
    IN  [bee_order |-> Tail(deck.order), last_bee |-> Head(deck.order),
         fresh |-> fresh, tries |-> deck.tries]

\* One visit of /interactive with the cookie the previous response set.  The
\* first shuffle is any permutation; the loop, if entered, makes n shuffles
\* of which the first n - 1 again start with the last item.
Visit(first, n, final) ==
    LET draws == [j \in 1 .. n |-> IF j < n THEN first ELSE final]
        r == interactive(bee_order, last_bee, first, draws)
    IN  /\ bee_order' = r.bee_order
        /\ last_bee' = r.last_bee
        /\ dealt' = (IF r.fresh THEN {} ELSE dealt) \cup {r.last_bee}
        /\ gave_up' = (r.tries = MaxTries /\ r.last_bee = last_bee)
        /\ UNCHANGED ctlvars

\* The visit finds a deck in the session, or builds one.  What the loop
\* leaves depends on the number n of its shuffles only through n = MaxTries:
\* the runs take the loop that ends at its first shuffle and the one that
\* uses all of them.
VisitDeck == bee_order # <<>> /\ Visit(BEE_IDS, 1, BEE_IDS)

VisitShuffle ==
    /\ bee_order = <<>>
    /\ \E first \in Shuffles :
           \/ first[1] # last_bee /\ Visit(first, 1, first)
           \/ /\ first = [i \in 1 .. NumBees |->
                             IF i = 1 THEN last_bee
                             ELSE IF i = last_bee THEN 1 ELSE i]
              /\ \E n \in {1, MaxTries}, final \in Shuffles :
                     /\ final[1] # last_bee \/ n = MaxTries
                     /\ Visit(first, n, final)

InitWeb == exists = RequiredFiles /\ InitState

NextWeb == VisitDeck \/ VisitShuffle

SpecWeb == InitWeb /\ [][NextWeb]_vars

(***************************************************************************)
(* Properties                                                              *)
(***************************************************************************)
\* What the program can tell of its state: a timer is scheduled or not.
\* ctrlview is the controller's fields, progview the whole program state.
Sched(j) == j # NoJob
ctrlview ==
    <<pressed, input_locked, [k \in Keys |-> Sched(hold_jobs[k])], hold_fired,
      Sched(quiz_job), quiz_hold_fired, quiz_active, quiz_waiting, q_index,
      score, Sched(answer_timeout_job), quiz_options, quiz_sequence,
      Sched(flash_job), flash_fn, Sched(flash_end_job), flash_on, flash_keys,
      flash_map, leds, status>>
progview ==
    <<exists, stop_event, proc,
      [t \in Threads |-> [thr[t] EXCEPT !.young = FALSE]], uiq, ctrlview>>

\* A step in which Abort is pressed during a quiz, so that abort_quiz runs
AbortStep == quiz_active /\ ev' = <<"abort", 0>>

\* No answer-timeout, quiz-hold or flash timer is scheduled (after the step)
NoQuizTimers ==
    /\ answer_timeout_job' = NoJob
    /\ quiz_job' = NoJob
    /\ flash_job' = NoJob
    /\ flash_end_job' = NoJob

\* C1 as the spec states it: abort is accepted in every quiz state, also
\* while input is locked, and the state right after abort_quiz is Idle:
\* quiz_active, quiz_waiting and input_locked false, no answer-timeout,
\* quiz-hold or flash timer scheduled.
C1_AbortLeavesUnlocked ==
    [][AbortStep => (/\ ~quiz_active' /\ ~quiz_waiting' /\ ~input_locked'
                     /\ NoQuizTimers)]_vars

\* C1, amended: right after abort_quiz the quiz is inactive and not waiting
\* and no answer-timeout, quiz-hold or flash timer is scheduled, whatever
\* the quiz state and the lock were; input_locked is false unless the
\* optional abort clip exists, in which case abort_quiz has locked the input
\* again for the playback of that clip.
C1_AbortLeavesIdle ==
    [][AbortStep => (/\ ~quiz_active' /\ ~quiz_waiting'
                     /\ input_locked' = (QUIZ_ABORT_WAV \in exists)
                     /\ NoQuizTimers
                     /\ pressed' = NoPress /\ q_index' = 0 /\ score' = 0)]_vars

\* Abort has just been pressed while a quiz clip was playing under the input
\* lock: that clip's process is killed, the quiz is over and the abort clip
\* holds the lock.
C1_AbortedWhileLocked ==
    /\ ev = <<"abort", 0>>
    /\ status = "Quiz: Aborted"
    /\ ~quiz_active
    /\ input_locked
    /\ \E t \in Threads : thr[t].ps = "killed" /\ thr[t].cb # StatusReadyCb

\* A step in which the event loop runs a queued completion (only RunUi
\* shortens the queue) of a clip that was stopped or superseded meanwhile
StaleCompletionRuns == uiq # <<>> /\ Len(uiq') < Len(uiq) /\ ~Head(uiq).cur

\* C2: the completion of a clip that was stopped (abort) or superseded by a
\* later play never takes effect on the controller: when it runs it neither
\* unlocks the input nor runs its continuation, so the controller state is
\* as it was.
C2_StaleCompletionDiscarded == [][StaleCompletionRuns => ctrlview' = ctrlview]_vars

\* The statuses of a round that has been presented
RoundStatuses ==
    {"Quiz: Question " \o ToString(n) : n \in 1 .. QuizRounds}
        \cup {"Quiz: Choose an insect", "Quiz: Correct", "Quiz: Not correct"}

\* A round has been presented and is not over: its status is shown, the
\* controller waits for its answer, or its question or feedback clip is the
\* current one (playing, or its completion on the way to the event loop)
RoundClips == {StartAnswerWindowCb, FeedbackAfterCb}
RoundPresented ==
    /\ quiz_active
    /\ \/ status \in RoundStatuses
       \/ quiz_waiting
       \/ \E t \in Threads : thr[t].cur /\ thr[t].cb \in RoundClips
       \/ \E i \in DOMAIN uiq : uiq[i].cur /\ uiq[i].cb \in RoundClips

\* C3: in every round of every quiz, from its presentation by _play_question
\* to its feedback, quiz_options holds exactly 4 distinct slot keys, one of
\* them the round's correct key quiz_sequence[q_index].
C3_FourDistinctOptionsWithCorrect ==
    RoundPresented =>
        /\ HasRound(State)
        /\ Len(quiz_options) = 4
        /\ \A i, j \in 1 .. Len(quiz_options) :
               i # j => quiz_options[i] # quiz_options[j]
        /\ \A i \in 1 .. Len(quiz_options) : quiz_options[i] \in Keys
        /\ InSeq(CorrectKey(State), quiz_options)

\* The second round has been presented, with a shuffle that did not leave the
\* correct key where _pick_4_options appended it.
C3_SecondRoundPresented ==
    /\ quiz_active
    /\ q_index = 1
    /\ status = "Quiz: Question 2"
    /\ Len(quiz_options) = 4
    /\ quiz_options[4] # CorrectKey(State)

\* The release of slot k's button arrives while the controller awaits an answer
ReleaseWhileAwaiting(k) ==
    quiz_active /\ quiz_waiting /\ k \in held /\ ev' = <<"up", k>>

\* C4: while the controller awaits an answer, a release of a key outside
\* quiz_options leaves the whole program state unchanged (still waiting, same
\* score and round, timeout and flash timers still scheduled), and a release
\* that ends the wait is one of a key in quiz_options.
C4_OnlyOptionsAccepted ==
    [][\A k \in Keys :
          ReleaseWhileAwaiting(k) =>
              /\ ~InSeq(k, quiz_options) =>
                     (/\ progview' = progview
                      /\ quiz_waiting' /\ answer_timeout_job' # NoJob)
              /\ ~quiz_waiting' => InSeq(k, quiz_options)]_vars

\* A key outside the options has just been released during the answer window
C4_OutsideKeyReleased ==
    /\ quiz_active /\ quiz_waiting /\ ~input_locked
    /\ ev[1] = "up" /\ ev[2] \in Keys
    /\ ~InSeq(ev[2], quiz_options)
    /\ answer_timeout_job # NoJob /\ flash_job # NoJob

\* The release of key k is accepted as the answer of the round
AnswerAccepted(k) == ReleaseWhileAwaiting(k) /\ ~quiz_waiting'

\* The answer timer of the round expires
TimeoutResolves ==
    /\ quiz_active /\ quiz_waiting /\ answer_timeout_job = Job
    /\ ev' = Internal /\ ~quiz_waiting' /\ quiz_active'

\* C5: the score grows by exactly 1 if and only if the accepted answer is the
\* round's correct key; a wrong answer and a timeout leave it unchanged, and
\* a timeout is reported as not correct.
C5_ScoreCountsCorrectAnswers ==
    [][/\ \A k \in Keys :
             AnswerAccepted(k) =>
                 IF k = CorrectKey(State)
                 THEN score' = score + 1 /\ status' = "Quiz: Correct"
                 ELSE score' = score /\ status' = "Quiz: Not correct"
       /\ TimeoutResolves => score' = score /\ status' = "Quiz: Not correct"
       /\ (quiz_active /\ quiz_active' /\ score' # score) =>
              \E k \in Keys : AnswerAccepted(k) /\ k = CorrectKey(State)]_vars

\* The first round was answered correctly and the second one was not
C5_OneRightOneWrong ==
    /\ quiz_active /\ q_index = 1
    /\ score = 1
    /\ status = "Quiz: Not correct"

\* A step that ends the quiz: the last round's feedback is over, or abort
QuizEnds == quiz_active /\ ~quiz_active'

\* C6: after a quiz completes and after a quiz is aborted every lamp is gray
\* and neither the flash tick timer nor the flash-end timer is scheduled.
C6_LampsGrayAfterQuiz ==
    [][QuizEnds => (/\ leds' = AllGray
                    /\ flash_job' = NoJob
                    /\ flash_end_job' = NoJob)]_vars

\* The narration of slot k (started by a hold) is playing in learn mode
NarrationPlaying(k) ==
    /\ ~quiz_active
    /\ input_locked
    /\ narration_wav(k) \in exists
    /\ status = "Hold: " \o KeyName(k)
    /\ \E t \in Threads : Steady(thr[t]) /\ thr[t].cb = LearnAfterCb(k)

\* Abort is pressed
AbortPress == ev' = <<"abort", 0>> /\ ev # <<"abort", 0>>

FeedbackStarts ==
    \E t \in Threads :
        thr[t].pc = "none" /\ thr'[t].pc = "start" /\ thr'[t].cb = FeedbackAfterCb

\* The round is resolved: the wait for an answer ends and the quiz goes on
RoundResolves == quiz_active /\ quiz_waiting /\ ~quiz_waiting' /\ quiz_active'

\* The question clip of a round starts (_play_question)
QuestionStarts ==
    \E t \in Threads :
        thr[t].pc = "none" /\ thr'[t].pc = "start" /\ thr'[t].cb = StartAnswerWindowCb

\* The event loop runs the completion cb of the clip that is still current
CurrentCompletionRuns(cb) ==
    uiq # <<>> /\ Len(uiq') < Len(uiq) /\ Head(uiq).cb = cb /\ Head(uiq).cur

\* C8: each round is resolved exactly once, by the accepted answer or by the
\* timeout, whichever comes first.  The answer timer is scheduled exactly
\* while the controller waits (so the loser cannot act and the timer fires
\* at most once per round); the resolving step is an accepted answer or the
\* timeout, cancels the timer, stops the flashing of the options and starts
\* the feedback of the round; a feedback starts in no other step; the wait
\* opens only on the completion of the round's question clip, and a question
\* clip starts only when the quiz starts or the round index advances.
C8_RoundResolvedOnce ==
    /\ [](quiz_waiting = (answer_timeout_job # NoJob))
    /\ [](quiz_waiting => quiz_active)
    /\ [][RoundResolves =>
              /\ (TimeoutResolves \/ \E k \in Keys : AnswerAccepted(k))
              /\ answer_timeout_job' = NoJob
              /\ flash_fn' # "uniform"
              /\ q_index' = q_index
              /\ FeedbackStarts]_vars
    /\ [][FeedbackStarts => RoundResolves]_vars
    /\ [][(~quiz_waiting /\ quiz_waiting') =>
              /\ CurrentCompletionRuns(StartAnswerWindowCb)
              /\ q_index' = q_index]_vars
    /\ [][QuestionStarts =>
              \/ ~quiz_active /\ q_index' = 0
              \/ q_index' = q_index + 1
              \/ q_index' = 0 /\ q_index = 0
                    /\ CurrentCompletionRuns(PlayQuestionCb)]_vars

\* The answer timer has just expired: no answer came, and the feedback clip
\* of the round is starting
C8_TimeoutResolvedRound ==
    /\ quiz_active /\ ~quiz_waiting
    /\ ev = Internal
    /\ status = "Quiz: Not correct"
    /\ answer_timeout_job = NoJob
    /\ \E t \in Threads : thr[t].pc = "start" /\ thr[t].cb = FeedbackAfterCb

\* C9: at most one clip is playing at any time, in every interleaving of the
\* worker threads with play and stop: at most one player process is alive.
C9_OneClipAtATime == Cardinality({t \in Threads : thr[t].ps = "alive"}) <= 1

\* C10 as the spec states it: the callback of a play request is invoked
\* exactly once if the clip ends naturally, so a worker whose clip ended
\* naturally does not return without the callback; and never if the clip was
\* ended by stop() or by a later play().
C10_CallbackOnNaturalEnd ==
    [][\A t \in Threads :
          /\ (thr[t].pc = "final" /\ thr[t].ps = "exited") => thr'[t].pc # "none"
          /\ thr'[t].pc = "call" => thr'[t].ps = "exited"]_vars

\* C10, amended: the callback is invoked at most once; exactly once if the
\* clip ends naturally and neither stop() nor a later play() runs before the
\* worker's final check; never if the clip was ended by stop() or by a later
\* play(), and never if one of them ran before the final check, even though
\* the clip had ended naturally.
C10_CallbackUnlessStopped ==
    [][\A t \in Threads :
          /\ (thr[t].pc = "final" /\ thr'[t].pc # "final") =>
                 /\ (thr'[t].pc = "call") = thr[t].cur
                 /\ thr'[t].pc \in {"call", "none"}
          /\ thr'[t].pc = "call" => thr'[t].ps = "exited"
          /\ (thr[t].pc = "call" /\ thr'[t].pc # "call") =>
                 /\ thr'[t].pc = "none"
                 /\ uiq' = Append(uiq, [cb |-> thr[t].cb, unlock |-> TRUE,
                                         cur |-> thr[t].cur])
          /\ (thr[t].pc # "call" /\ thr'[t].pc = "call") => thr[t].pc = "final"]_vars

\* A clip has ended naturally, and a stop() or play() has run before its
\* worker reaches the final check
C10_StoppedBeforeFinalCheck ==
    \E t \in Threads :
        thr[t].pc = "final" /\ thr[t].ps = "exited" /\ ~thr[t].cur

\* The controls: the slots and the Quiz button (0)
Controls == Keys \cup {0}

\* C11: a press of a slot key or of the quiz control made while input is
\* locked, or while a control is recorded as pressed, is a no-op: no timer
\* is armed, no audio started, no field changed; and a press is recorded
\* only when none was recorded and the input was unlocked, so that a
\* recorded press is never replaced by another.
C11_RefusedPressIsNoOp ==
    [][/\ \A c \in Controls :
             (c \notin held /\ ev' = <<"down", c>>
                  /\ (input_locked \/ pressed # NoPress)) =>
                 progview' = progview
       /\ (pressed' # pressed /\ pressed' # NoPress) =>
              /\ pressed = NoPress /\ ~input_locked
              /\ \E c \in Controls :
                     /\ ev' = <<"down", c>>
                     /\ pressed' = IF c = 0 THEN QuizPress ELSE InsectPress(c)]_vars

\* Slot 2 has just been pressed while slot 1 is held and recorded as pressed
C11_SecondPressRefused ==
    /\ ev = <<"down", 2>>
    /\ held = {1, 2}
    /\ pressed = InsectPress(1)
    /\ hold_jobs[1] # NoJob
    /\ hold_jobs[2] = NoJob

\* The feedback clip of the round is the current clip: it is starting or
\* playing, or its completion is on the way to the event loop
FeedbackClipCurrent ==
    \/ \E t \in Threads : thr[t].cur /\ thr[t].cb = FeedbackAfterCb
    \/ \E i \in DOMAIN uiq : uiq[i].cur /\ uiq[i].cb = FeedbackAfterCb

\* The feedback of a round is shown
InFeedback == quiz_active /\ (flash_fn = "multicolor" \/ FeedbackClipCurrent)

\* The lamps of a lit feedback: correct key green, other options red
FeedbackColors ==
    [k \in Keys |->
        IF k = CorrectKey(State) THEN "green"
        ELSE IF InSeq(k, quiz_options) THEN "red"
        ELSE "gray"]

\* The clip a newly started feedback thread plays
FeedbackClipStarted(wav) ==
    \E t \in Threads :
        /\ thr[t].pc = "none" /\ thr'[t].pc = "start"
        /\ thr'[t].cb = FeedbackAfterCb /\ thr'[t].wav = wav

\* C12: during the feedback of a round, whenever a lamp is lit the round's
\* correct key is green, each of the other 3 option keys is red and every key
\* outside the options is gray, and the feedback clip is the current clip;
\* that clip is correct.wav after a correct answer and incorrect.wav after a
\* wrong answer or a timeout.
C12_FeedbackLampsAndClip ==
    /\ []((InFeedback /\ leds # AllGray) =>
             /\ HasRound(State)
             /\ leds = FeedbackColors
             /\ Cardinality({k \in Keys : leds[k] = "red"}) = 3
             /\ Cardinality({k \in Keys : leds[k] = "green"}) = 1
             /\ FeedbackClipCurrent)
    /\ [][\A k \in Keys :
              AnswerAccepted(k) =>
                  FeedbackClipStarted(IF k = CorrectKey(State) THEN CORRECT_WAV
                                      ELSE INCORRECT_WAV)]_vars
    /\ [][TimeoutResolves => FeedbackClipStarted(INCORRECT_WAV)]_vars

\* The lamps of a feedback are lit while correct.wav plays
C12_CorrectFeedbackLit ==
    /\ quiz_active /\ flash_fn = "multicolor" /\ flash_on
    /\ leds # AllGray
    /\ \E t \in Threads : thr[t].wav = CORRECT_WAV /\ Steady(thr[t])

\* The controller advances from a round: _next_or_end increments q_index, to
\* present the next round or to end the quiz
Advances == quiz_active /\ q_index' = q_index + 1

\* C13: after feedback starts the controller advances only once both the
\* feedback flash duration has elapsed (its end timer has fired) and the
\* feedback clip has finished (its completion runs); never while either is
\* still in progress.
C13_AdvanceAfterFlashAndClip ==
    [][Advances => (/\ flash_end_job = NoJob
                    /\ flash_job = NoJob
                    /\ CurrentCompletionRuns(FeedbackAfterCb))]_vars

\* The status text names the number n.  Status texts are atomic strings, so
\* this lists the texts of the program that carry a numeral.
NamesNumber(text, n) ==
    \/ text = "Quiz: Question " \o ToString(n)
    \/ text = "Sound: " \o KeyName(n)
    \/ text = "Hold: " \o KeyName(n)
    \/ text = "Missing: " \o WavName(sound_wav(n))
    \/ text = "Missing: " \o WavName(narration_wav(n))
    \/ n = 4 /\ text = "Need at least 4 insect*_sound.wav files for the quiz."

\* The quiz completes: the feedback of the last round is over
QuizCompletes == quiz_active /\ ~quiz_active' /\ q_index' = q_index + 1

\* C14: when the last round's feedback finishes the quiz transitions to
\* complete (quiz_active and quiz_waiting false) and the status text reports
\* the final score.
C14_CompletionReportsScore ==
    [][QuizCompletes => (/\ ~quiz_waiting'
                         /\ NamesNumber(status', score'))]_vars

\* A learn-mode clip (short clip or narration) starts
LearnClipStarts ==
    \E t \in Threads :
        thr[t].pc = "none" /\ thr'[t].pc = "start" /\ thr'[t].cb[1] = "learn_after"

\* C15: while a quiz is active no slot press arms a hold timer (a press
\* changes nothing), no learn-mode short clip or narration is started, and
\* a slot release is either accepted as the answer of the round or ignored.
C15_NoLearnModeDuringQuiz ==
    [][quiz_active =>
          /\ ~LearnClipStarts
          /\ \A k \in Keys : Sched(hold_jobs'[k]) => Sched(hold_jobs[k])
          /\ \A k \in Keys :
                (k \notin held /\ ev' = <<"down", k>>) => progview' = progview
          /\ \A k \in Keys :
                (k \in held /\ ev' = <<"up", k>>) =>
                    AnswerAccepted(k) \/ progview' = progview]_vars

\* A slot has just been pressed during a quiz, with the input unlocked and
\* no press recorded: in learn mode the press would have been accepted
C15_SlotPressedDuringQuiz ==
    /\ quiz_active /\ ~input_locked /\ pressed = NoPress
    /\ ev[1] = "down" /\ ev[2] \in Keys
    /\ \A k \in Keys : hold_jobs[k] = NoJob

\* The clip _play_slot_audio(key, short=False) plays
NarrationClip(k) ==
    IF narration_wav(k) \in exists THEN narration_wav(k) ELSE sound_wav(k)

\* The step starts the narration playback of key k
NarrationStarts(k) ==
    /\ status' = "Hold: " \o KeyName(k)
    /\ \E t \in Threads :
           thr[t].pc = "none" /\ thr'[t].pc = "start" /\ thr'[t].cb = LearnAfterCb(k)

\* The narration playback of key k is the current clip and has not completed
NarrationCurrent(k) ==
    /\ k \in hold_fired
    /\ \E t \in Threads :
           /\ thr[t].pc # "none" /\ thr[t].cur
           /\ thr[t].cb = LearnAfterCb(k)

\* C16: in learn mode the narration of a key starts only in the step in
\* which the key's hold timer fires while the accepted press of that key is
\* still recorded; the clip started is the narration clip, or the short clip
\* if the narration clip is missing; the input is locked from that step on
\* for as long as the clip is the current one and has not completed.
C16_NarrationOnHeldKeyLocksInput ==
    /\ [][\A k \in Keys : NarrationStarts(k) =>
              /\ ~quiz_active /\ ev' = Internal
              /\ pressed = InsectPress(k) /\ k \in held
              /\ hold_jobs[k] = Job /\ hold_jobs'[k] = NoJob
              /\ input_locked'
              /\ \E t \in Threads :
                     /\ thr[t].pc = "none" /\ thr'[t].pc = "start"
                     /\ thr'[t].wav = NarrationClip(k)]_vars
    /\ [](\A k \in Keys : NarrationCurrent(k) => input_locked)

\* The step starts the short clip of key k
ShortClipStarts(k) ==
    /\ status' = "Sound: " \o KeyName(k)
    /\ \E t \in Threads :
           /\ thr[t].pc = "none" /\ thr'[t].pc = "start"
           /\ thr'[t].wav = sound_wav(k) /\ thr'[t].cb = LearnAfterCb(k)

\* In learn mode key k, whose press was accepted and whose hold timer has
\* not fired, is released
ReleasedBeforeHold(k) ==
    /\ ~quiz_active
    /\ k \in held /\ ev' = <<"up", k>>
    /\ pressed = InsectPress(k) /\ Sched(hold_jobs[k])

\* The step releases a key whose hold timer has fired narration
ReleasedAfterHold(k) == k \in held /\ ev' = <<"up", k>> /\ k \in hold_fired

QuizBecomesActive == ~quiz_active /\ quiz_active'

QuizClipsPresent ==
    /\ Len(EligibleKeys(exists)) >= 4
    /\ CORRECT_WAV \in exists /\ INCORRECT_WAV \in exists

\* The quiz hold timer fires with the Quiz button still recorded as pressed
QuizHoldFires ==
    /\ ev' = Internal
    /\ quiz_job = Job /\ quiz_job' = NoJob
    /\ pressed = QuizPress

\* The status messages of a refused quiz start
RefusalStatuses ==
    {"Need at least 4 insect*_sound.wav files for the quiz.",
     "Missing: correct.wav or incorrect.wav"}

\* The player, and the controller without its status text, its press record
\* and the quiz hold timer with its fired flag
audioview ==
    <<stop_event, proc, [t \in Threads |-> [thr[t] EXCEPT !.young = FALSE]], uiq>>
sessionview ==
    <<input_locked, [k \in Keys |-> Sched(hold_jobs[k])], hold_fired,
      quiz_active, quiz_waiting, q_index, score, Sched(answer_timeout_job),
      quiz_options, quiz_sequence, Sched(flash_job), flash_fn,
      Sched(flash_end_job), flash_on, flash_keys, flash_map, leds>>

\* C19 as the spec states it: when the quiz hold fires and fewer than 4
\* slots have a short clip or a feedback clip is missing, the controller
\* only sets a status message: no quiz becomes active, no other field of the
\* controller changes, the step does not lock the input and no clip is
\* requested.
C19_RefusedStartOnlyReports ==
    [][(QuizHoldFires /\ ~QuizClipsPresent) =>
          /\ status' \in RefusalStatuses
          /\ ~quiz_active' /\ input_locked' = input_locked
          /\ audioview' = audioview
          /\ sessionview' = sessionview
          /\ pressed' = pressed]_vars

\* C19, amended: the refused start sets the status message and clears the
\* press record of the Quiz button, with the hold marked as fired; no quiz
\* becomes active, nothing else of the controller changes, the step does not
\* lock the input and no clip is requested.
C19_RefusedStartClearsPress ==
    [][(QuizHoldFires /\ ~QuizClipsPresent) =>
          /\ status' \in RefusalStatuses
          /\ (Len(EligibleKeys(exists)) < 4) =>
                 status' = "Need at least 4 insect*_sound.wav files for the quiz."
          /\ ~quiz_active' /\ input_locked' = input_locked
          /\ audioview' = audioview
          /\ sessionview' = sessionview
          /\ pressed' = NoPress /\ quiz_hold_fired']_vars

\* A quiz start has just been refused for want of playable slots, the Quiz
\* button still held
C19_StartRefused ==
    /\ Len(EligibleKeys(exists)) < 4
    /\ status = "Need at least 4 insect*_sound.wav files for the quiz."
    /\ ev = Internal /\ 0 \in held
    /\ pressed = NoPress /\ quiz_hold_fired /\ quiz_job = NoJob

\* The smaller of two numbers
Min2(a, b) == IF a < b THEN a ELSE b

\* q holds n pairwise distinct keys, each of a slot whose short clip exists
DistinctEligible(q, n) ==
    /\ Len(q) = n
    /\ \A i \in DOMAIN q : sound_wav(q[i]) \in exists
    /\ \A i, j \in DOMAIN q : i # j => q[i] # q[j]

\* C20: the step that starts a quiz leaves the score and the round index 0
\* and a round sequence of min(rounds, number of eligible slots) pairwise
\* distinct keys of eligible slots, rounds being the bound QuizRounds of the
\* runs; with the QUIZ_ROUNDS of the program every draw of the sample from
\* the eligible slots of the run is such a sequence as well.
C20_SequenceOfDistinctEligibleKeys ==
    [][QuizBecomesActive =>
          /\ score' = 0 /\ q_index' = 0
          /\ DistinctEligible(quiz_sequence',
                              Min2(QuizRounds, Len(EligibleKeys(exists))))
          /\ \A i \in 1 .. NumSlots :
                 LET n == Min2(QUIZ_ROUNDS, Len(EligibleKeys(exists)))
                 IN  DistinctEligible(quiz_sequence_of(exists, QUIZ_ROUNDS, i), n)]_vars

\* A quiz has just started in a run with four eligible slots, fewer than
\* the QUIZ_ROUNDS of the program
C20_StartedFromFourEligible ==
    /\ Len(EligibleKeys(exists)) = 4
    /\ quiz_active /\ q_index = 0 /\ score = 0
    /\ Len(quiz_sequence) = QuizRounds
    /\ quiz_hold_fired /\ 0 \in held /\ ev = Internal
    /\ status = "Quiz: Ready"

\* The round is resolved as not correct (timeout or wrong answer) while
\* incorrect.wav is missing
FeedbackClipMissing ==
    /\ quiz_active /\ quiz_waiting /\ HasRound(State)
    /\ INCORRECT_WAV \notin exists
    /\ \/ answer_timeout_job = Job /\ answer_timeout_job' = NoJob /\ ev' = Internal
       \/ \E k \in Keys :
              /\ ReleaseWhileAwaiting(k) /\ ~input_locked
              /\ InSeq(k, quiz_options) /\ k # CorrectKey(State)

\* The feedback of a round has finished and the short clip of the next
\* round's slot is missing
QuestionClipMissing ==
    /\ quiz_active
    /\ CurrentCompletionRuns(FeedbackAfterCb)
    /\ q_index + 2 \in DOMAIN quiz_sequence
    /\ sound_wav(quiz_sequence[q_index + 2]) \notin exists

\* The status texts that report a missing clip or the abort
AbortStatuses ==
    {"Missing: " \o WavName(w) : w \in RequiredFiles} \cup {"Quiz: Aborted"}

\* C21: when a round needs its slot clip or a feedback clip and the clip is
\* missing, the quiz is aborted with a status message: the quiz is no longer
\* active, the session fields are reset, the status reports the missing
\* clip or the abort, and the input is locked only while an abort clip
\* plays.
C21_MissingClipAbortsWithMessage ==
    [][(FeedbackClipMissing \/ QuestionClipMissing) =>
          /\ ~quiz_active' /\ ~quiz_waiting'
          /\ q_index' = 0 /\ score' = 0
          /\ quiz_options' = <<>> /\ quiz_sequence' = <<>>
          /\ answer_timeout_job' = NoJob
          /\ status' \in AbortStatuses
          /\ input_locked' =>
                 \E t \in Threads : thr'[t].cur /\ thr'[t].wav = QUIZ_ABORT_WAV]_vars

\* The step starts the flashing of the options (_start_answer_window)
OptionsFlashStarts ==
    /\ quiz_active
    /\ uiq # <<>> /\ Len(uiq') < Len(uiq) /\ Head(uiq).cb = StartAnswerWindowCb

\* C22: at any time at most one flash tick timer and at most one flash-end
\* timer are pending, and they are the ones the controller's fields name;
\* the step that starts a flash effect leaves one of each and every lamp
\* outside the new effect gray.
C22_OneFlashEffect ==
    /\ [](/\ tk_ticks = (IF Sched(flash_job) THEN 1 ELSE 0)
          /\ tk_ends = (IF Sched(flash_end_job) THEN 1 ELSE 0))
    /\ [][OptionsFlashStarts =>
              /\ tk_ticks' = 1 /\ tk_ends' = 1
              /\ leds' = [k \in Keys |->
                             IF InSeq(k, quiz_options) THEN "yellow" ELSE "gray"]]_vars
    /\ [][(FeedbackStarts /\ HasRound(State)) =>
              /\ tk_ticks' = 1 /\ tk_ends' = 1
              /\ leds' = [k \in Keys |->
                             IF k = CorrectKey(State) THEN "green"
                             ELSE IF InSeq(k, quiz_options) THEN "red"
                             ELSE "gray"]]_vars

\* The feedback flash has just started over the flashing of the options,
\* whose timers were pending when the answer was released
C22_FeedbackOverOptionsFlash ==
    /\ quiz_active /\ flash_fn = "multicolor"
    /\ ev[1] = "up" /\ ev[2] \in Keys
    /\ tk_ticks = 1 /\ tk_ends = 1

\* A visit of /interactive is served
VisitServed == <<bee_order, last_bee, dealt>>' # <<bee_order, last_bee, dealt>>

\* The items left in the deck
InDeck == {bee_order[i] : i \in DOMAIN bee_order}

\* C23: within one session no item is dealt twice until all NumBees items
\* have been dealt: the items dealt since the last (re)shuffle and the items
\* left in the deck are disjoint and together are all the items, each visit
\* deals an item not dealt since the (re)shuffle, and a deck is built exactly
\* when the session holds none, which is at the first visit and after every
\* NumBees-th item of a deck.
C23_DeckDealsEachOnce ==
    /\ [](last_bee # 0 =>
             /\ last_bee \in dealt
             /\ dealt \cap InDeck = {}
             /\ dealt \cup InDeck = 1 .. NumBees
             /\ Cardinality(dealt) + Len(bee_order) = NumBees)
    /\ [][VisitServed =>
              IF bee_order = <<>>
              THEN /\ dealt = {} \/ dealt = 1 .. NumBees
                   /\ dealt' = {last_bee'} /\ Len(bee_order') = NumBees - 1
              ELSE /\ last_bee' \notin dealt
                   /\ dealt' = dealt \cup {last_bee'}
                   /\ Len(bee_order') = Len(bee_order) - 1]_vars

\* The last item of a deck has been dealt: all items dealt, none left
C23_DeckExhausted ==
    bee_order = <<>> /\ dealt = 1 .. NumBees /\ last_bee # 0

\* C24 as the spec states it: no visit deals the item of the visit before.
C24_NoImmediateRepeat ==
    [][(VisitServed /\ last_bee # 0) => last_bee' # last_bee]_vars

\* C24, amended: a visit deals the item of the visit before it only as the
\* first item of a new deck, and only when the first shuffle and all
\* MaxTries re-shuffles put that item first; within a deck it never does.
C24_RepeatOnlyAfterAllTries ==
    [][(VisitServed /\ last_bee # 0 /\ last_bee' = last_bee) =>
          /\ bee_order = <<>> /\ dealt = 1 .. NumBees
          /\ gave_up']_vars

\* A new deck has just been dealt from after the loop used up its
\* re-shuffles: its first item is the one the visit before showed
C24_RepeatAcrossDecks ==
    gave_up /\ dealt = {last_bee} /\ Len(bee_order) = NumBees - 1

\* A clip the controller started is audibly playing: its player process
\* runs and nothing has stopped or superseded it
ClipPlaying == \E t \in Threads : Steady(thr[t])

\* The step requests a clip from the player
ClipStarts == \E t \in Threads : thr[t].pc = "none" /\ thr'[t].pc = "start"

\* C25: while a clip is still playing the controller starts no other clip,
\* except in the step that handles Abort; so no hold timer fires a narration
\* or a quiz start over a playing clip.
C25_OneClipUnlessAbort ==
    [][(ClipPlaying /\ ClipStarts) => ev' = <<"abort", 0>>]_vars

\* The round index changes while the quiz stays active
RoundAdvances == quiz_active /\ quiz_active' /\ q_index' # q_index

\* C26: every quiz that becomes active eventually becomes inactive, when
\* clips come to an end and due timers and queued callbacks run; the round
\* index grows by exactly 1, in the step that runs the completion of the
\* feedback clip of a resolved round, and a quiz that is not aborted ends in
\* the step that brings the index to the length of the round sequence.
C26_QuizTerminates ==
    /\ quiz_active ~> ~quiz_active
    /\ [][RoundAdvances =>
              /\ q_index' = q_index + 1
              /\ quiz_sequence' = quiz_sequence
              /\ ~quiz_waiting
              /\ uiq # <<>> /\ Len(uiq') < Len(uiq)
              /\ Head(uiq).cb = FeedbackAfterCb /\ Head(uiq).cur]_vars
    /\ [][(QuizEnds /\ ev' # <<"abort", 0>>) =>
              /\ q_index' = Len(quiz_sequence)
              /\ q_index' = q_index + 1
              /\ status' \in {"Quiz: Complete", "Ready"}]_vars

\* A quiz has run through all its rounds and is over
C26_QuizRanAllRounds ==
    /\ ~quiz_active
    /\ q_index = QuizRounds
    /\ Len(quiz_sequence) = QuizRounds
    /\ ev = Internal
    /\ status \in {"Quiz: Complete", "Ready"}

\* The worker thread of the current clip is running and no stop was
\* requested: it will hand over the completion that unlocks the input
CurrentClipRuns ==
    ~stop_event /\ \E t \in Threads : thr[t].cur /\ thr[t].pc # "none"

\* A completion that unlocks the input is queued in the event loop
UnlockQueued == \E i \in DOMAIN uiq : uiq[i].unlock

\* C27: locked input is eventually unlocked, when clips come to an end and
\* queued callbacks run; and in every reachable state with the input locked
\* the current clip is still running toward its completion or a completion
\* that unlocks is queued.
C27_LockedInputIsUnlocked ==
    /\ input_locked ~> ~input_locked
    /\ [](input_locked => CurrentClipRuns \/ UnlockQueued)

\* The input is locked and the only hope is a queued completion: the clip
\* has ended and its worker thread is gone
C27_LockedAfterClipEnded ==
    /\ input_locked
    /\ ~CurrentClipRuns
    /\ UnlockQueued

\* C28: in every state the handlers leave, an open answer window means an
\* active quiz, unlocked input, no control recorded as pressed and an
\* answer-timeout timer scheduled; and an answer-timeout timer is scheduled
\* only while the answer window is open.
C28_AnswerWindowConsistent ==
    /\ quiz_waiting =>
           /\ quiz_active
           /\ ~input_locked
           /\ pressed = NoPress
           /\ answer_timeout_job # NoJob
    /\ answer_timeout_job # NoJob => quiz_waiting

\* The answer window of the second round is open and its timer is due
C28_SecondAnswerWindowOpen ==
    /\ quiz_waiting
    /\ q_index = 1
    /\ answer_timeout_job = Job

\* C29: while a quiz is active the round index points into the round
\* sequence and the score lies between 0 and the index plus one; the score
\* never decreases while the quiz stays active, and a quiz that runs to
\* completion ends with its score unchanged and at most the number of rounds.
C29_IndexAndScoreInRange ==
    /\ [](quiz_active =>
             /\ q_index \in 0 .. Len(quiz_sequence) - 1
             /\ score \in 0 .. q_index + 1)
    /\ [][(quiz_active /\ quiz_active') => score' >= score]_vars
    /\ [][(QuizEnds /\ ev' # <<"abort", 0>>) =>
              score' = score /\ score' \in 0 .. Len(quiz_sequence)]_vars

\* Every round so far was answered correctly, the last round included
C29_FullScoreInLastRound ==
    /\ quiz_active
    /\ q_index = QuizRounds - 1
    /\ score = QuizRounds

\* Slot k is released outside a quiz with the input unlocked, and its press
\* was refused: k is held but not the control recorded as pressed (in learn
\* mode an accepted press stays recorded until its release).
ReleasedRefusedPress(k) ==
    /\ ~quiz_active /\ ~input_locked
    /\ k \in held /\ ev' = <<"up", k>>
    /\ pressed # InsectPress(k)

\* C30: the release of a slot key whose press was refused, arriving outside
\* a quiz with the input unlocked, starts no clip, locks nothing and changes
\* no state.
C30_RefusedReleaseChangesNothing ==
    [][\A k \in Keys : ReleasedRefusedPress(k) =>
           /\ ~ClipStarts
           /\ ~input_locked'
           /\ ctrlview' = ctrlview
           /\ audioview' = audioview]_vars

====
